---- MODULE Spec2Model ----
(***************************************************************************)
(* Crossword CSP solver (generate.py, class CrosswordCreator).             *)
(*                                                                         *)
(* The state is the creator object (crossword, domains) together with the  *)
(* control state of solve(): the ac3 worklist, the assignment dict and the *)
(* stack of active backtrack() calls.  Python sets iterate in an order the *)
(* program does not control; the model fixes one iteration order per run   *)
(* (wordOrder for sets of words, varOrder for sets of variables) and lets  *)
(* Init choose it freely.                                                  *)
(***************************************************************************)
EXTENDS Integers, Sequences, FiniteSets, TLC

VARIABLES
    variables,    \* crossword.variables
    words,        \* crossword.words
    overlaps,     \* crossword.overlaps
    varOrder,     \* iteration order of sets of variables
    wordOrder,    \* iteration order of sets of words
    previous,     \* what an earlier run on the same crossword returned ("none" if none)
    domains,      \* self.domains
    pc,           \* position of the running call
    arcs,         \* ac3: the worklist
    ac3_ret,      \* what ac3 returned ("pending" before it returns)
    assignment,   \* the dict passed down backtrack: sequence of [var, val] items
    stack,        \* active backtrack calls that are inside their for loop:
                  \* var, ordered values, position in the loop, and the dict's
                  \* items when the call was entered
    result,       \* what the call returned
    err           \* the exception raised, if any

\* the crossword, the iteration orders and the earlier outcome: fixed once the
\* creator is built
puzzle == <<variables, words, overlaps, varOrder, wordOrder, previous>>

vars == <<puzzle, domains, pc, arcs, ac3_ret, assignment, stack, result, err>>

-----------------------------------------------------------------------------
(* Bounds *)

MaxWords == 4

Alphabet == {"a", "b"}

WordsOfLen(n) == [1..n -> Alphabet]

\* the candidate words of a puzzle: every word of length 2, and the words of
\* length 3 with an "a" on an end; their middle letter is fixed, the grids
\* below let no slot cross it
WordPool ==
    WordsOfLen(2) \cup
    {w \in WordsOfLen(3) : w[2] = "a" /\ (w[1] = "a" \/ w[3] = "a")}

-----------------------------------------------------------------------------
(* The puzzle model (crossword.py): variables, overlaps, neighbors *)

ACROSS == "across"

DOWN == "down"

Variable(i, j, direction, length) ==
    [i |-> i, j |-> j, direction |-> direction, length |-> length]

\* the cells a variable spans, in letter order
Cells(v) ==
    [k \in 1..v.length |->
        <<v.i + (IF v.direction = DOWN THEN k - 1 ELSE 0),
          v.j + (IF v.direction = ACROSS THEN k - 1 ELSE 0)>>]

CellIndex(v, c) == (CHOOSE k \in 1..v.length : Cells(v)[k] = c) - 1

CellSet(v) == {Cells(v)[k] : k \in 1..v.length}

NoOverlap == <<>>

\* the cell two variables share: 0-based letter indices in each, or None
ComputeOverlap(x, y) ==
    LET inter == CellSet(x) \cap CellSet(y)
    IN  IF inter = {} THEN NoOverlap
        ELSE LET c == CHOOSE c \in inter : TRUE
             IN  <<CellIndex(x, c), CellIndex(y, c)>>

\* one slot
Grid1 == {Variable(0, 0, ACROSS, 2)}

\* two crossing slots: letter 1 of the across word is letter 0 of the down word
Grid2 == {Variable(0, 0, ACROSS, 2), Variable(0, 1, DOWN, 2)}

\* an across slot of length 3; a down slot ends on its first cell and another
\* starts on its last cell
Grid3 == {Variable(1, 0, ACROSS, 3), Variable(0, 0, DOWN, 2), Variable(1, 2, DOWN, 2)}

Grids == {Grid1, Grid2, Grid3}

\* crossword.overlaps as filled when the crossword is built: a key for every
\* ordered pair of distinct variables
OverlapTable(vs) ==
    [p \in {q \in vs \X vs : q[1] # q[2]} |-> ComputeOverlap(p[1], p[2])]

\* crossword.overlaps[x, y]
Overlaps(x, y) == overlaps[<<x, y>>]

\* crossword.neighbors(var)
Neighbors(var) ==
    {v \in variables : v # var /\ Overlaps(v, var) # NoOverlap}

-----------------------------------------------------------------------------
(* Iteration orders *)

Perms(S) ==
    {s \in [1..Cardinality(S) -> S] : \A a, b \in DOMAIN s : a # b => s[a] # s[b]}

\* the elements of set S in the order `order` lists them
InOrder(order, S) == SelectSeq(order, LAMBDA e : e \in S)

-----------------------------------------------------------------------------
(* The assignment dict: items in insertion order *)

Keys(a) == {a[k].var : k \in DOMAIN a}

Get(a, v) == a[CHOOSE k \in DOMAIN a : a[k].var = v].val

\* assignment[var] = val
Put(a, v, w) ==
    IF v \in Keys(a)
    THEN [k \in DOMAIN a |-> IF a[k].var = v THEN [var |-> v, val |-> w] ELSE a[k]]
    ELSE Append(a, [var |-> v, val |-> w])

\* assignment.pop(var), for a key that is present
Pop(a, v) == SelectSeq(a, LAMBDA item : item.var # v)

-----------------------------------------------------------------------------
(* Letters of a word, 0-based as in the source; an index past the end raises *)

InRange(w, i) == i >= 0 /\ i < Len(w)

At(w, i) == w[i + 1]

\* the inner loop of revise (lines 131-134) for one w1: scans ys until a word
\* agrees with w1 at the overlap; "IndexError" if an index is out of range first
ScanForMatch(w1, ys, ov) ==
    LET stop(k) == \/ ~InRange(w1, ov[1])
                   \/ ~InRange(ys[k], ov[2])
                   \/ At(w1, ov[1]) = At(ys[k], ov[2])
        stops == {k \in DOMAIN ys : stop(k)}
    IN  IF stops = {} THEN "none"
        ELSE LET k == CHOOSE k \in stops : \A m \in stops : k <= m
             IN  IF ~InRange(w1, ov[1]) \/ ~InRange(ys[k], ov[2])
                 THEN "IndexError" ELSE "found"

-----------------------------------------------------------------------------
(* enforce_node_consistency *)

\* mutant: only the words that are too long are removed
ToBeRemovedTooLong(var, ws) == {w \in ws : Len(w) > var.length}

ToBeRemoved(var, ws) == {w \in ws : Len(w) # var.length}

\* mutant: the words are removed from a copy, the stored domains stay as they were
EnforceNodeConsistencyOnCopy(doms) == doms

EnforceNodeConsistency(doms) ==
    [var \in DOMAIN doms |-> doms[var] \ ToBeRemoved(var, doms[var])]

-----------------------------------------------------------------------------
(* revise *)

\* mutant: the overlap indices are used the wrong way round
ToRemovedSwapped(doms, x, y) ==
    LET ov == Overlaps(x, y)
        ys == InOrder(wordOrder, doms[y])
    IN  {w1 \in doms[x] : ScanForMatch(w1, ys, <<ov[2], ov[1]>>) = "none"}

\* mutant: the inner loop looks at the first word of y's domain only
ToRemovedFirstOnly(doms, x, y) ==
    LET ov == Overlaps(x, y)
        ys == InOrder(wordOrder, doms[y])
    IN  {w1 \in doms[x] : Len(ys) = 0 \/ At(w1, ov[1]) # At(ys[1], ov[2])}

\* to_removed of revise(x, y) (lines 128-136)
ToRemoved(doms, x, y) ==
    LET ov == Overlaps(x, y)
        ys == InOrder(wordOrder, doms[y])
    IN  {w1 \in doms[x] : ScanForMatch(w1, ys, ov) = "none"}

ReviseRaises(doms, x, y) ==
    LET ov == Overlaps(x, y)
        ys == InOrder(wordOrder, doms[y])
    IN  ov # NoOverlap /\ \E w1 \in doms[x] : ScanForMatch(w1, ys, ov) = "IndexError"

\* mutant: domain(x) is rebuilt from the whole word list instead of pruned
ReviseFromAllWords(doms, x, y) ==
    IF Overlaps(x, y) = NoOverlap
    THEN [domains |-> doms, revision |-> "False"]
    ELSE LET ov   == Overlaps(x, y)
             kept == {w1 \in words :
                        /\ Len(w1) = x.length
                        /\ \E w2 \in doms[y] : At(w1, ov[1]) = At(w2, ov[2])}
         IN  [domains  |-> [doms EXCEPT ![x] = kept],
              revision |-> IF kept # doms[x] THEN "True" ELSE "False"]

\* mutant: the words are removed but `revision` is never set (lines 138-139 dropped)
ReviseUnreported(doms, x, y) ==
    IF Overlaps(x, y) = NoOverlap
    THEN [domains |-> doms, revision |-> "False"]
    ELSE [domains |-> [doms EXCEPT ![x] = @ \ ToRemoved(doms, x, y)],
          revision |-> "False"]

\* revise(x, y): the domains afterwards and the value returned
Revise(doms, x, y) ==
    IF Overlaps(x, y) = NoOverlap
    THEN [domains |-> doms, revision |-> "False"]
    ELSE IF ReviseRaises(doms, x, y)
    THEN [domains |-> doms, revision |-> "IndexError"]
    ELSE LET gone == ToRemoved(doms, x, y)
         IN  [domains  |-> [doms EXCEPT ![x] = @ \ gone],
              revision |-> IF Cardinality(gone) # 0 THEN "True" ELSE "False"]

-----------------------------------------------------------------------------
(* ac3 *)

\* mutant: of the two arcs between neighbours only one is on the worklist
InitialArcsOneWay ==
    LET n == Len(varOrder)
        pair(k) == <<varOrder[((k - 1) \div n) + 1], varOrder[((k - 1) % n) + 1]>>
        all == [k \in 1..(n * n) |-> pair(k)]
        earlier(u, v) == \E i, j \in DOMAIN varOrder :
                            i < j /\ varOrder[i] = u /\ varOrder[j] = v
    IN  SelectSeq(all, LAMBDA a : /\ earlier(a[1], a[2])
                                  /\ Overlaps(a[1], a[2]) # NoOverlap)

\* the keys of crossword.overlaps with a defined overlap, in the order the
\* dict was filled (lines 152-153)
InitialArcs ==
    LET n == Len(varOrder)
        pair(k) == <<varOrder[((k - 1) \div n) + 1], varOrder[((k - 1) % n) + 1]>>
        all == [k \in 1..(n * n) |-> pair(k)]
    IN  SelectSeq(all, LAMBDA a : a[1] # a[2] /\ Overlaps(a[1], a[2]) # NoOverlap)

\* mutant: nothing is put back on the worklist after a revision
RequeueNothing(arc) == <<>>

\* the arcs appended after a revision of arc[0] (lines 162-164)
Requeue(arc) ==
    LET ns == InOrder(varOrder, Neighbors(arc[1]) \ {arc[2]})
    IN  [k \in DOMAIN ns |-> <<ns[k], arc[1]>>]

\* mutant: the arc taken is left on the worklist (line 157 dropped)
Ac3IterationKeepsArc(doms, worklist) ==
    LET arc == Head(worklist)
        r   == Revise(doms, arc[1], arc[2])
    IN  IF r.revision = "IndexError"
        THEN [domains |-> doms, arcs |-> worklist, ret |-> "IndexError"]
        ELSE IF r.revision = "True" /\ Cardinality(r.domains[arc[1]]) = 0
        THEN [domains |-> r.domains, arcs |-> worklist, ret |-> "False"]
        ELSE [domains |-> r.domains, arcs |-> worklist, ret |-> "loop"]

\* one iteration of the while loop (lines 155-164) on a non-empty worklist:
\* ret is "loop" when the loop goes on, "False" on return False
Ac3Iteration(doms, worklist) ==
    LET arc  == Head(worklist)
        rest == Tail(worklist)
        r    == Revise(doms, arc[1], arc[2])
    IN  IF r.revision = "IndexError"
        THEN [domains |-> doms, arcs |-> rest, ret |-> "IndexError"]
        ELSE IF r.revision = "True"
        THEN IF Cardinality(r.domains[arc[1]]) = 0
             THEN [domains |-> r.domains, arcs |-> rest, ret |-> "False"]
             ELSE [domains |-> r.domains, arcs |-> rest \o Requeue(arc), ret |-> "loop"]
        ELSE [domains |-> r.domains, arcs |-> rest, ret |-> "loop"]

\* the value ac3 returns when the while loop ends without a return statement
Ac3FallThrough == "None"

\* a whole call ac3(arcs): final domains and returned value
RECURSIVE Ac3Run(_, _)
Ac3Run(doms, worklist) ==
    IF Len(worklist) = 0
    THEN [domains |-> doms, ret |-> Ac3FallThrough]
    ELSE LET it == Ac3Iteration(doms, worklist)
         IN  IF it.ret = "loop" THEN Ac3Run(it.domains, it.arcs)
             ELSE [domains |-> it.domains, ret |-> it.ret]

-----------------------------------------------------------------------------
(* assignment_complete *)

AssignmentComplete(a) ==
    IF variables \ Keys(a) # {} THEN "False" ELSE "True"

-----------------------------------------------------------------------------
(* consistent *)

\* mutant: only neighbouring items of the dict are compared
AllCountsOneAdjacent(a) ==
    \A k \in DOMAIN a : k + 1 \in DOMAIN a => a[k].val # a[k + 1].val

\* numpy.unique(values, return_counts=True): all counts are 1
AllCountsOne(a) ==
    \A k, m \in DOMAIN a : k # m => a[k].val # a[m].val

\* the body of the loop over assignment.items() for one item (lines 194-205):
\* "False" on return False, "IndexError" on a letter index out of range,
\* "next" when the loop goes on to the next item
CheckItem(a, item) ==
    IF Len(item.val) # item.var.length THEN "False"
    ELSE LET ns == InOrder(varOrder, Neighbors(item.var) \cap Keys(a))
             bad(n) == \/ ~InRange(item.val, Overlaps(item.var, n)[1])
                       \/ ~InRange(Get(a, n), Overlaps(item.var, n)[2])
             differ(n) == At(item.val, Overlaps(item.var, n)[1])
                            # At(Get(a, n), Overlaps(item.var, n)[2])
             stops == {k \in DOMAIN ns : bad(ns[k]) \/ differ(ns[k])}
         IN  IF stops = {} THEN "next"
             ELSE LET k == CHOOSE k \in stops : \A m \in stops : k <= m
                  IN  IF bad(ns[k]) THEN "IndexError" ELSE "False"

Consistent(a) ==
    IF ~AllCountsOne(a) THEN "False"
    ELSE LET stops == {k \in DOMAIN a : CheckItem(a, a[k]) # "next"}
         IN  IF stops = {} THEN "True"
             ELSE LET k == CHOOSE k \in stops : \A m \in stops : k <= m
                  IN  CheckItem(a, a[k])

-----------------------------------------------------------------------------
(* order_domain_values *)

\* nb_eliminated for w1 against neighbour n once the loop over n's words ends
NbEliminated(doms, var, n, w1) ==
    Cardinality({w2 \in doms[n] :
        At(w1, Overlaps(var, n)[1]) # At(w2, Overlaps(var, n)[2])})

\* the neighbours the outer loop visits (lines 217-218), in iteration order
UnassignedNeighbors(var, a) ==
    InOrder(varOrder, Neighbors(var) \ Keys(a))

\* the neighbours whose loop wrote result[w1] (line 226 runs only on a mismatch)
Writers(doms, var, a, w1) ==
    LET ns == UnassignedNeighbors(var, a)
    IN  {k \in DOMAIN ns : NbEliminated(doms, var, ns[k], w1) > 0}

\* the keys of the dict `result` at line 228
ResultKeys(doms, var, a) ==
    {w1 \in doms[var] : Writers(doms, var, a, w1) # {}}

\* result[w1]: the value the last writer left
ResultGet(doms, var, a, w1) ==
    LET ns == UnassignedNeighbors(var, a)
        ws == Writers(doms, var, a, w1)
        k  == CHOOSE k \in ws : \A m \in ws : m <= k
    IN  NbEliminated(doms, var, ns[k], w1)

\* sorted(word_var, key=result.__getitem__) (line 230): ascending by key,
\* equal keys keep the order of word_var
Sorted(doms, var, a) ==
    LET list == InOrder(wordOrder, doms[var])
        keyed == {<<ResultGet(doms, var, a, list[k]), k>> : k \in DOMAIN list}
        before(p, q) == p[1] < q[1] \/ (p[1] = q[1] /\ p[2] < q[2])
        nth(r) == CHOOSE q \in keyed : Cardinality({p \in keyed : before(p, q)}) = r - 1
    IN  [r \in DOMAIN list |-> list[nth(r)[2]]]

OrderRaisesIndexError(doms, var, a) ==
    \E n \in Neighbors(var) \ Keys(a) : \E w1 \in doms[var] : \E w2 \in doms[n] :
        \/ ~InRange(w1, Overlaps(var, n)[1])
        \/ ~InRange(w2, Overlaps(var, n)[2])

\* order_domain_values(var, assignment): the list returned, or the exception
OrderDomainValues(doms, var, a) ==
    LET word_var == InOrder(wordOrder, doms[var])
    IN  IF OrderRaisesIndexError(doms, var, a)
        THEN [status |-> "IndexError", values |-> <<>>]
        ELSE IF Cardinality(ResultKeys(doms, var, a)) = 0
        THEN [status |-> "ok", values |-> word_var]
        ELSE IF doms[var] \ ResultKeys(doms, var, a) # {}
        THEN [status |-> "KeyError", values |-> <<>>]
        ELSE [status |-> "ok",
              values |-> Sorted(doms, var, a)]

-----------------------------------------------------------------------------
(* select_unassigned_variable *)

\* mutant: the comparison at line 250 reversed, the largest domain wins
MostValues(doms, uv) ==
    CHOOSE l \in {Cardinality(doms[uv[k]]) : k \in DOMAIN uv} :
        \A k \in DOMAIN uv : l >= Cardinality(doms[uv[k]])

\* the length the loop at lines 249-251 ends with, for a non-empty uv
FewestValues(doms, uv) ==
    CHOOSE l \in {Cardinality(doms[uv[k]]) : k \in DOMAIN uv} :
        \A k \in DOMAIN uv : l <= Cardinality(doms[uv[k]])

\* mutant: no tie-break, the first candidate is returned
DegreeIndexFirst(cand) == 1

\* index after the tie-break loop (lines 253-260), 1-based
DegreeIndex(cand) ==
    IF Len(cand) = 1 THEN 1
    ELSE CHOOSE i \in DOMAIN cand :
            /\ \A k \in DOMAIN cand :
                  Cardinality(Neighbors(cand[k])) <= Cardinality(Neighbors(cand[i]))
            /\ \A k \in 1..(i - 1) :
                  Cardinality(Neighbors(cand[k])) < Cardinality(Neighbors(cand[i]))

\* mutant: the variables already in the assignment are candidates too
SelectAnyVariable(doms, a) ==
    LET uv == InOrder(varOrder, variables)
    IN  IF Len(uv) = 0 THEN [status |-> "IndexError", var |-> <<>>]
        ELSE LET length == FewestValues(doms, uv)
                 v_candidate ==
                     SelectSeq(uv, LAMBDA v : Cardinality(doms[v]) = length)
             IN  [status |-> "ok", var |-> v_candidate[DegreeIndex(v_candidate)]]

\* select_unassigned_variable(assignment): the variable returned, or the exception
SelectUnassignedVariable(doms, a) ==
    LET uv == InOrder(varOrder, variables \ Keys(a))
    IN  IF Len(uv) = 0 THEN [status |-> "IndexError", var |-> <<>>]
        ELSE LET length == FewestValues(doms, uv)
                 v_candidate ==
                     SelectSeq(uv, LAMBDA v : Cardinality(doms[v]) = length)
             IN  [status |-> "ok", var |-> v_candidate[DegreeIndex(v_candidate)]]

-----------------------------------------------------------------------------
(* solve(): the state after CrosswordCreator(crossword) and its steps *)

Init ==
    /\ variables \in Grids
    /\ words \in {S \in SUBSET WordPool : Cardinality(S) <= MaxWords}
    /\ overlaps = OverlapTable(variables)
    /\ varOrder \in Perms(variables)
    /\ wordOrder \in Perms(words)
    /\ previous = "none"
    /\ domains = [var \in variables |-> words]
    /\ pc = "solve"
    /\ arcs = <<>>
    /\ ac3_ret = "pending"
    /\ assignment = <<>>
    /\ stack = <<>>
    /\ result = "pending"
    /\ err = "none"

Raise(e) ==
    /\ pc' = "raised"
    /\ err' = e

\* line 93
SolveNodeConsistency ==
    /\ pc = "solve"
    /\ domains' = EnforceNodeConsistency(domains)
    /\ pc' = "ac3_call"
    /\ UNCHANGED <<puzzle, arcs, ac3_ret,
                   assignment, stack, result, err>>

\* line 94, ac3 entered with arcs=None
Ac3Begin ==
    /\ pc = "ac3_call"
    /\ arcs' = InitialArcs
    /\ pc' = "ac3_loop"
    /\ UNCHANGED <<puzzle, domains, ac3_ret,
                   assignment, stack, result, err>>

\* one iteration of ac3's while loop
Ac3Step ==
    /\ pc = "ac3_loop"
    /\ Len(arcs) # 0
    /\ LET it == Ac3Iteration(domains, arcs)
       IN  /\ domains' = it.domains
           /\ arcs' = it.arcs
           /\ IF it.ret = "loop"
              THEN UNCHANGED <<pc, ac3_ret, err>>
              ELSE IF it.ret = "False"
              THEN ac3_ret' = "False" /\ pc' = "bt_call" /\ UNCHANGED err
              ELSE Raise(it.ret) /\ UNCHANGED ac3_ret
    /\ UNCHANGED <<puzzle, assignment, stack, result>>

\* the while loop ends; solve goes on to backtrack(dict())
Ac3End ==
    /\ pc = "ac3_loop"
    /\ Len(arcs) = 0
    /\ ac3_ret' = Ac3FallThrough
    /\ pc' = "bt_call"
    /\ UNCHANGED <<puzzle, domains, arcs,
                   assignment, stack, result, err>>

\* backtrack(assignment) entered: lines 273-276
BacktrackEnter ==
    /\ pc = "bt_call"
    /\ IF AssignmentComplete(assignment) = "True"
       THEN \* return assignment, handed up through every caller (lines 282-283)
            /\ pc' = "returned"
            /\ result' = "assignment"
            /\ stack' = <<>>
            /\ UNCHANGED err
       ELSE LET sel == SelectUnassignedVariable(domains, assignment)
            IN  IF sel.status # "ok"
                THEN Raise(sel.status) /\ UNCHANGED <<stack, result>>
                ELSE LET ord == OrderDomainValues(domains, sel.var, assignment)
                     IN  IF ord.status # "ok"
                         THEN Raise(ord.status) /\ UNCHANGED <<stack, result>>
                         ELSE /\ stack' = Append(stack, [var    |-> sel.var,
                                                         values |-> ord.values,
                                                         idx    |-> 1,
                                                         entry  |-> assignment])
                              /\ pc' = "bt_loop"
                              /\ UNCHANGED <<result, err>>
    /\ UNCHANGED <<puzzle, domains, arcs, ac3_ret,
                   assignment>>

Top == stack[Len(stack)]

\* one iteration of the for loop, up to the recursive call: lines 278-281
BacktrackTry ==
    /\ pc = "bt_loop"
    /\ Top.idx <= Len(Top.values)
    /\ LET a == Put(assignment, Top.var, Top.values[Top.idx])
           c == Consistent(a)
       IN  /\ assignment' = a
           /\ IF c = "True"
              THEN pc' = "bt_call" /\ UNCHANGED <<stack, err>>
              ELSE IF c = "False"
              THEN /\ stack' = [stack EXCEPT ![Len(stack)].idx = @ + 1]
                   /\ UNCHANGED <<pc, err>>
              ELSE Raise(c) /\ UNCHANGED stack
    /\ UNCHANGED <<puzzle, domains, arcs, ac3_ret,
                   result>>

\* the for loop is exhausted: return None (line 285); the caller, if any,
\* pops its own binding and moves to its next value (lines 282-284)
BacktrackExhausted ==
    /\ pc = "bt_loop"
    /\ Top.idx > Len(Top.values)
    /\ LET callers == SubSeq(stack, 1, Len(stack) - 1)
       IN  IF Len(callers) = 0
           THEN /\ stack' = callers
                /\ pc' = "returned"
                /\ result' = "None"
                /\ UNCHANGED <<assignment, err>>
           ELSE LET caller == callers[Len(callers)]
                IN  IF caller.var \notin Keys(assignment)
                    THEN /\ Raise("KeyError")
                         /\ stack' = callers
                         /\ UNCHANGED <<assignment, result>>
                    ELSE /\ assignment' = Pop(assignment, caller.var)
                         /\ stack' = [callers EXCEPT ![Len(callers)].idx = @ + 1]
                         /\ UNCHANGED <<pc, result, err>>
    /\ UNCHANGED <<puzzle, domains, arcs, ac3_ret>>

Next ==
    \/ SolveNodeConsistency
    \/ Ac3Begin
    \/ Ac3Step
    \/ Ac3End
    \/ BacktrackEnter
    \/ BacktrackTry
    \/ BacktrackExhausted

Spec == Init /\ [][Next]_vars

-----------------------------------------------------------------------------
(* The program run a second time on the same crossword *)

\* solve() has returned; a new creator is built on the same variables,
\* overlaps and words (lines 299-301), whose sets iterate in any order
Rerun ==
    /\ pc = "returned"
    /\ previous = "none"
    /\ previous' = result
    /\ varOrder' \in Perms(variables)
    /\ wordOrder' \in Perms(words)
    /\ domains' = [var \in variables |-> words]
    /\ pc' = "solve"
    /\ arcs' = <<>>
    /\ ac3_ret' = "pending"
    /\ assignment' = <<>>
    /\ stack' = <<>>
    /\ result' = "pending"
    /\ UNCHANGED <<variables, words, overlaps, err>>

NextRuns ==
    \/ Next
    \/ Rerun

SpecRuns == Init /\ [][NextRuns]_vars

-----------------------------------------------------------------------------
(* The whole run of the program, from before the creator is built; the single
   thread is never suspended for ever: while a step is possible, one is taken *)

MaxFairWords == 3

\* no crossword yet
InitMain ==
    /\ variables = {}
    /\ words = {}
    /\ overlaps = <<>>
    /\ varOrder = <<>>
    /\ wordOrder = <<>>
    /\ previous = "none"
    /\ domains = <<>>
    /\ pc = "main"
    /\ arcs = <<>>
    /\ ac3_ret = "pending"
    /\ assignment = <<>>
    /\ stack = <<>>
    /\ result = "pending"
    /\ err = "none"

\* lines 299-300: the crossword is loaded and the creator built on it
Construct ==
    /\ pc = "main"
    /\ variables' \in Grids
    /\ words' \in {S \in SUBSET WordPool : Cardinality(S) <= MaxFairWords}
    /\ overlaps' = OverlapTable(variables')
    /\ varOrder' \in Perms(variables')
    /\ wordOrder' \in Perms(words')
    /\ domains' = [var \in variables' |-> words']
    /\ pc' = "solve"
    /\ UNCHANGED <<previous, arcs, ac3_ret, assignment, stack, result, err>>

NextMain ==
    \/ Construct
    \/ Next

FairSpec == InitMain /\ [][NextMain]_vars /\ WF_vars(NextMain)

-----------------------------------------------------------------------------
(* consistent() called on its own, on any assignment of pool words *)

\* words an assignment under test may hold: the pool and the one-letter words
ProbePool == WordPool \cup WordsOfLen(1)

\* every dict binding some of the variables vs, in every insertion order
Dicts(vs) ==
    UNION {{a \in [1..Cardinality(S) -> [var : S, val : ProbePool]] :
               \A k, m \in DOMAIN a : k # m => a[k].var # a[m].var}
           : S \in SUBSET vs}

InitConsistent ==
    /\ variables \in Grids
    /\ words = ProbePool
    /\ overlaps = OverlapTable(variables)
    /\ varOrder \in Perms(variables)
    /\ wordOrder = <<>>
    /\ previous = "none"
    /\ domains = [var \in variables |-> words]
    /\ pc = "consistent_call"
    /\ arcs = <<>>
    /\ ac3_ret = "pending"
    /\ assignment \in Dicts(variables)
    /\ stack = <<>>
    /\ result = "pending"
    /\ err = "none"

CallConsistent ==
    /\ pc = "consistent_call"
    /\ LET c == Consistent(assignment)
       IN  IF c \in {"True", "False"}
           THEN pc' = "returned" /\ result' = c /\ UNCHANGED err
           ELSE Raise(c) /\ UNCHANGED result
    /\ UNCHANGED <<puzzle, domains, arcs, ac3_ret, assignment, stack>>

NextConsistent == CallConsistent

SpecConsistent == InitConsistent /\ [][NextConsistent]_vars

-----------------------------------------------------------------------------
(* order_domain_values() called on its own, on the domains solve() has
   prepared and an empty assignment *)

MaxOrderWords == 6

\* the domains when solve() reaches backtrack (lines 93-94)
Prepared(ws) ==
    Ac3Run(EnforceNodeConsistency([var \in variables |-> ws]), InitialArcs)

InitOrder ==
    /\ variables \in Grids
    /\ words \in {S \in SUBSET WordPool : Cardinality(S) <= MaxOrderWords}
    /\ overlaps = OverlapTable(variables)
    /\ varOrder \in Perms(variables)
    /\ wordOrder \in Perms(words)
    /\ previous = "none"
    /\ domains = [var \in variables |-> words]
    /\ pc = "solve"
    /\ arcs = <<>>
    /\ ac3_ret = "pending"
    /\ assignment = <<>>
    /\ stack = <<>>
    /\ result = "pending"
    /\ err = "none"

\* lines 93-94 as one step, then a call order_domain_values(var, dict()) is
\* set up, for any variable
PrepareOrder ==
    /\ pc = "solve"
    /\ LET ready == Prepared(words)
       IN  /\ domains' = ready.domains
           /\ ac3_ret' = ready.ret
    /\ \E var \in variables : stack' = <<[var |-> var]>>
    /\ pc' = "order_call"
    /\ UNCHANGED <<puzzle, arcs, assignment, result, err>>

\* line 276, for the variable of the waiting call
CallOrderDomainValues ==
    /\ pc = "order_call"
    /\ LET ord == OrderDomainValues(domains, Top.var, assignment)
       IN  IF ord.status = "ok"
           THEN pc' = "returned" /\ result' = ord.values /\ UNCHANGED err
           ELSE Raise(ord.status) /\ UNCHANGED result
    /\ UNCHANGED <<puzzle, domains, arcs, ac3_ret, assignment, stack>>

NextOrder ==
    \/ PrepareOrder
    \/ CallOrderDomainValues

SpecOrder == InitOrder /\ [][NextOrder]_vars

-----------------------------------------------------------------------------
(* revise() called on its own: any two distinct variables, any domains of
   words of the right length *)

MaxReviseWords == 3

\* every choice of a set of right-length words for each of the variables
NodeConsistentChoices(ws) ==
    [variables -> SUBSET ws] \cap
        {d \in [variables -> SUBSET ws] :
            \A v \in variables : \A w \in d[v] : Len(w) = v.length}

InitRevise ==
    /\ variables \in Grids
    /\ words \in {S \in SUBSET WordPool : Cardinality(S) <= MaxReviseWords}
    /\ overlaps = OverlapTable(variables)
    \* revise iterates over no set of variables: one order stands for all
    /\ varOrder = (CHOOSE s \in Perms(variables) : TRUE)
    /\ wordOrder \in Perms(words)
    /\ previous = "none"
    /\ domains \in NodeConsistentChoices(words)
    /\ pc = "revise_call"
    /\ arcs = <<>>
    /\ ac3_ret = "pending"
    /\ assignment = <<>>
    /\ \E x \in variables : \E y \in variables \ {x} :
          stack = <<[x |-> x, y |-> y, entry |-> domains]>>
    /\ result = "pending"
    /\ err = "none"

\* revise(x, y) for the arguments of the waiting call
CallRevise ==
    /\ pc = "revise_call"
    /\ LET r == Revise(domains, Top.x, Top.y)
       IN  IF r.revision \in {"True", "False"}
           THEN /\ domains' = r.domains
                /\ result' = r.revision
                /\ pc' = "returned"
                /\ UNCHANGED err
           ELSE Raise(r.revision) /\ UNCHANGED <<domains, result>>
    /\ UNCHANGED <<puzzle, arcs, ac3_ret, assignment, stack>>

NextRevise == CallRevise

SpecRevise == InitRevise /\ [][NextRevise]_vars

-----------------------------------------------------------------------------
(* What the claims speak of, stated without the code's loops *)

\* the overlap of two slots, from the grid's geometry
Crossing(x, y) == x # y /\ ComputeOverlap(x, y) # NoOverlap

\* an assignment binds each of its variables once
SingleValued(a) == \A k, m \in DOMAIN a : a[k].var = a[m].var => k = m

\* distinct words, right lengths, agreeing letters at every overlap
MeansConsistent(a) ==
    /\ \A k, m \in DOMAIN a : k # m => a[k].val # a[m].val
    /\ \A k \in DOMAIN a : Len(a[k].val) = a[k].var.length
    /\ \A k, m \in DOMAIN a :
          Crossing(a[k].var, a[m].var) =>
             a[k].val[ComputeOverlap(a[k].var, a[m].var)[1] + 1]
                = a[m].val[ComputeOverlap(a[k].var, a[m].var)[2] + 1]

MeansComplete(a) == Keys(a) = variables /\ SingleValued(a)

\* a function from all variables to words, as a dict
AsDict(f) == [k \in 1..Len(varOrder) |-> [var |-> varOrder[k], val |-> f[varOrder[k]]]]

\* the puzzle has a solution over the original word set
HasSolution == \E f \in [variables -> words] : MeansConsistent(AsDict(f))

\* every word of every domain has a partner in each neighbouring domain
ArcConsistent(doms) ==
    \A x \in variables : \A y \in variables :
        Crossing(x, y) =>
            \A w \in doms[x] : \E w2 \in doms[y] :
                w[ComputeOverlap(x, y)[1] + 1] = w2[ComputeOverlap(x, y)[2] + 1]

\* the words of x's domain that no word of y's domain agrees with at the
\* overlap of x and y
Unsupported(doms, x, y) ==
    LET ov == ComputeOverlap(x, y)
    IN  {w1 \in doms[x] : \A w2 \in doms[y] : w1[ov[1] + 1] # w2[ov[2] + 1]}

\* one round of pruning: every word without support in some crossing domain
\* goes, in all domains at once
PruneRound(doms) ==
    [x \in variables |->
        {w \in doms[x] :
            \A y \in variables : Crossing(x, y) => w \notin Unsupported(doms, x, y)}]

\* the domains that rounds of pruning end with: the largest arc consistent
\* domains inside doms, defined without a worklist
RECURSIVE PruneToFixpoint(_)
PruneToFixpoint(doms) ==
    LET pruned == PruneRound(doms)
    IN  IF pruned = doms THEN doms ELSE PruneToFixpoint(pruned)

SolveEnded == pc \in {"returned", "raised"}

Ac3Returned == ac3_ret # "pending"

\* the state in which ac3 has just returned to solve
Ac3JustReturned == Ac3Returned /\ pc = "bt_call" /\ Len(stack) = 0

\* the domains node consistency leaves
NodeConsistentDomains == [var \in variables |-> {w \in words : Len(w) = var.length}]

-----------------------------------------------------------------------------
(* Claims *)

\* C1: an assignment returned by solve() binds every variable to exactly one
\* word, and the words are pairwise distinct, of their variable's length and
\* agree at every overlap.
C1_SearchSoundness ==
    (pc = "returned" /\ result = "assignment") =>
        MeansComplete(assignment) /\ MeansConsistent(assignment)

C1_Witness ==
    pc = "returned" /\ result = "assignment" /\ Cardinality(variables) = 3

\* C2: if the puzzle has a solution over the original word set, solve()
\* returns an assignment, whatever the iteration orders.
C2_SearchCompleteness ==
    (SolveEnded /\ HasSolution) => (pc = "returned" /\ result = "assignment")

\* C3: when ac3 returned False, solve() returns None: it neither returns an
\* assignment nor raises.
C3_Ac3FailureGivesNone ==
    (SolveEnded /\ ac3_ret = "False") => (pc = "returned" /\ result = "None")

C3_Witness ==
    /\ pc = "returned" /\ ac3_ret = "False" /\ result = "None"
    /\ \E v \in variables : domains[v] # {}

\* C4: enforce_node_consistency leaves in each domain exactly the words of the
\* previous domain whose length is the variable's length.
C4_NodeConsistencyExact ==
    [][pc = "solve" =>
         \A v \in variables : domains'[v] = {w \in domains[v] : Len(w) = v.length}]_vars

C4_Witness ==
    /\ pc = "ac3_call"
    /\ \E v \in variables : domains[v] # {} /\ domains[v] # words

\* C5: when ac3 (default arcs) finishes without reporting failure, every word
\* of every domain has a partner word in each neighbouring domain that agrees
\* with it at the overlap.
C5_ArcConsistencySound ==
    (Ac3JustReturned /\ ac3_ret # "False") => ArcConsistent(domains)

C5_Witness ==
    /\ Ac3JustReturned /\ ac3_ret # "False"
    /\ domains # NodeConsistentDomains
    /\ \A v \in variables : domains[v] # {}

\* C6: ac3 returns True when its worklist empties with arc consistency
\* enforced and no domain empty.
C6_Ac3ReturnsTrue ==
    (/\ Ac3JustReturned
     /\ Len(arcs) = 0
     /\ ArcConsistent(domains)
     /\ \A v \in variables : domains[v] # {}) => ac3_ret = "True"

\* C7: ac3 returns False whenever some domain is empty when it returns, also
\* when that domain was empty before ac3 started or belongs to a variable
\* with no neighbours.
C7_Ac3ReturnsFalseOnEmptyDomain ==
    (Ac3JustReturned /\ \E v \in variables : domains[v] = {}) => ac3_ret = "False"

\* C9: after a successful ac3 (default arcs), running ac3 again with the
\* default arcs removes no word and reports the same success.
C9_Ac3Idempotent ==
    (Ac3JustReturned /\ ac3_ret # "False") =>
        Ac3Run(domains, InitialArcs) = [domains |-> domains, ret |-> ac3_ret]

C9_Witness ==
    /\ Ac3JustReturned /\ ac3_ret # "False"
    /\ domains # NodeConsistentDomains
    /\ Cardinality(variables) = 3

\* C10: solve() ends by returning a complete assignment or None; it never
\* ends by raising an exception.
C10_SolveNeverRaises ==
    /\ pc # "raised"
    /\ pc = "returned" =>
          \/ result = "None"
          \/ result = "assignment" /\ MeansComplete(assignment)

\* the root call is in its loop over values that sorted() ordered by result's keys
C10_Witness ==
    /\ pc = "bt_loop" /\ Len(stack) = 1 /\ Len(assignment) = 0
    /\ ResultKeys(domains, Top.var, assignment) # {}

\* the bindings of a dict, whatever their insertion order
Bindings(a) == {a[k] : k \in DOMAIN a}

\* the innermost active call has run out of values: its next step is return None
ReturnsNone == pc = "bt_loop" /\ Top.idx > Len(Top.values)

\* C11: when a call backtrack(assignment) returns None, the dict holds exactly
\* the bindings it held when that call was entered: every binding the call
\* inserted, rejected by consistent() or failed in recursion, is gone.
C11_UndoOnFailure ==
    ReturnsNone => Bindings(assignment) = Bindings(Top.entry)

\* the innermost active call has just selected its variable and ordered
\* its values
JustSelected == pc = "bt_loop" /\ Top.idx = 1

\* the number of slots that cross v
Degree(v) == Cardinality({n \in variables : Crossing(v, n)})

\* C13: when some variable is not a key of the assignment,
\* select_unassigned_variable returns a variable that is not a key, whose
\* domain is smallest among the variables that are not keys, and that has the
\* most neighbours among the non-key variables with a domain of that size.
C13_VariableSelection ==
    JustSelected =>
        LET free == variables \ Keys(Top.entry)
        IN  /\ Top.var \in free
            /\ \A u \in free :
                  /\ Cardinality(domains[Top.var]) <= Cardinality(domains[u])
                  /\ Cardinality(domains[u]) = Cardinality(domains[Top.var])
                        => Degree(u) <= Degree(Top.var)

\* the selected variable won the tie-break against a variable that comes
\* earlier in iteration order, and a variable with a larger domain was passed over
C13_Witness ==
    /\ JustSelected
    /\ \E k, m \in DOMAIN varOrder :
          /\ k < m /\ varOrder[m] = Top.var
          /\ varOrder[k] \notin Keys(Top.entry)
          /\ Cardinality(domains[varOrder[k]]) = Cardinality(domains[Top.var])
          /\ Degree(varOrder[k]) < Degree(Top.var)
    /\ \E u \in variables \ Keys(Top.entry) :
          Cardinality(domains[u]) > Cardinality(domains[Top.var])

\* the complete consistent assignments over the original word set
Solutions ==
    LET crossings == {<<u, v, ComputeOverlap(u, v)>> :
                         <<u, v>> \in {p \in variables \X variables : Crossing(p[1], p[2])}}
    IN  {f \in [variables -> words] :
            /\ \A v \in variables : Len(f[v]) = v.length
            /\ \A u, v \in variables : u # v => f[u] # f[v]
            /\ \A c \in crossings : f[c[1]][c[3][1] + 1] = f[c[2]][c[3][2] + 1]}

\* C15: every word that a complete consistent assignment over the original
\* word set gives to a variable is still in that variable's domain after
\* enforce_node_consistency and ac3; so ac3 does not return False on a puzzle
\* that has a solution.
C15_PruningPreservesSolutions ==
    Ac3JustReturned =>
        LET sols == Solutions
        IN  /\ \A f \in sols : \A v \in variables : f[v] \in domains[v]
            /\ sols # {} => ac3_ret # "False"

\* ac3 removed words of a puzzle that has a solution
C15_Witness ==
    /\ Ac3JustReturned
    /\ Solutions # {}
    /\ domains # NodeConsistentDomains

\* C16: solve() eventually returns: the ac3 worklist empties or ac3 returns on
\* an empty domain, and backtrack from the empty assignment ends with a
\* complete assignment or with failure.  Checked under FairSpec.
C16_Termination == <>(pc = "returned" /\ result \in {"assignment", "None"})

\* solve() returned failure after a search that bound and unbound variables
C16_Witness ==
    /\ pc = "returned" /\ result = "None"
    /\ ac3_ret = "None" /\ Len(arcs) = 0
    /\ \A v \in variables : domains[v] # {}

\* C18: over the whole of solve() every step leaves each domain a subset of
\* what it was and of the original word set, and from the moment ac3 has
\* returned no step changes any domain: backtrack,
\* select_unassigned_variable, order_domain_values and consistent only read.
C18_SearchKeepsDomains ==
    [][/\ \A v \in variables : domains'[v] \subseteq domains[v] \cap words
       /\ Ac3Returned => domains' = domains]_vars

\* ac3 pruned words, and the search is two calls deep
C18_Witness ==
    /\ pc = "bt_loop" /\ Len(stack) >= 2
    /\ domains # NodeConsistentDomains

\* the number of nested active calls of backtrack: those inside their for
\* loop and the one being entered
Depth == Len(stack) + (IF pc = "bt_call" THEN 1 ELSE 0)

\* C19: at every point of solve() the number of nested active backtrack
\* calls is at most the number of variables plus one (the root call).
C19_RecursionDepth == Depth <= Cardinality(variables) + 1

\* the deepest call: entered with every variable bound by a caller
C19_Witness ==
    /\ Cardinality(variables) = 3
    /\ Depth = Cardinality(variables) + 1
    /\ {stack[k].var : k \in DOMAIN stack} = variables

\* C20: a run of ac3 from the node-consistent domains with the default arcs
\* that does not fail ends with domains that do not depend on the order of the
\* worklist or of re-enqueueing (they are the largest arc consistent domains),
\* and whether ac3 ends with an empty domain does not depend on it either.
C20_Ac3OrderIndependent ==
    Ac3JustReturned =>
        LET fixpoint == PruneToFixpoint(NodeConsistentDomains)
        IN  /\ ac3_ret # "False" => domains = fixpoint
            /\ (\E v \in variables : domains[v] = {})
                  <=> (\E v \in variables : fixpoint[v] = {})

\* ac3 succeeded after a revision made it put arcs back on the worklist
C20_Witness ==
    /\ Ac3JustReturned /\ ac3_ret # "False"
    /\ Cardinality(variables) = 3
    /\ PruneRound(PruneRound(NodeConsistentDomains)) # PruneRound(NodeConsistentDomains)

-----------------------------------------------------------------------------
(* Claims about repeated runs, under SpecRuns *)

\* C17: for a fixed crossword (variables, overlaps, words), whether solve()
\* returns a solution or no solution is the same in every run, whatever the
\* order in which sets of words and of variables iterate.
C17_OutcomeDeterminism ==
    (pc = "returned" /\ previous # "none") => result = previous

-----------------------------------------------------------------------------
(* Claims about revise() alone, under SpecRevise *)

\* C14: revise(x, y) removes from domain(x) exactly the words that no word
\* of domain(y) agrees with at the overlap, and nothing when x and y do not
\* overlap; it returns True exactly when domain(x) changed, and every other
\* domain stays as it was.
C14_ReviseExact ==
    pc # "revise_call" =>
        /\ pc = "returned"
        /\ domains[Top.x] =
              (IF Crossing(Top.x, Top.y)
               THEN Top.entry[Top.x] \ Unsupported(Top.entry, Top.x, Top.y)
               ELSE Top.entry[Top.x])
        /\ result = (IF domains[Top.x] # Top.entry[Top.x] THEN "True" ELSE "False")
        /\ \A v \in variables \ {Top.x} : domains[v] = Top.entry[v]

\* revise removed some words of x's domain, kept others, and returned True
C14_Witness ==
    /\ pc = "returned" /\ result = "True"
    /\ domains[Top.x] # {}
    /\ domains[Top.x] # Top.entry[Top.x]

-----------------------------------------------------------------------------
(* Claims about order_domain_values() alone, under SpecOrder *)

\* the words of n's domain that disagree with w1 at the overlap of var and n
Disagreeing(var, n, w1) ==
    {w2 \in domains[n] :
        w1[ComputeOverlap(var, n)[1] + 1] # w2[ComputeOverlap(var, n)[2] + 1]}

\* the elimination count of w1: disagreeing words, summed over the neighbours
\* of var that the assignment does not bind
EliminationCount(var, a, w1) ==
    LET ns == {n \in variables : Crossing(var, n) /\ n \notin Keys(a)}
        RECURSIVE Sum(_)
        Sum(S) == IF S = {} THEN 0
                  ELSE LET n == CHOOSE n \in S : TRUE
                       IN  Cardinality(Disagreeing(var, n, w1)) + Sum(S \ {n})
    IN  Sum(ns)

\* C12: order_domain_values(var, assignment) returns every word of
\* domain(var) exactly once, in ascending order of elimination count, the
\* count of a word being the number of words of neighbour domains that
\* disagree with it at the overlap, summed over all unassigned neighbours.
C12_LeastConstrainingOrder ==
    pc \notin {"solve", "order_call"} =>
        /\ pc = "returned"
        /\ Len(result) = Cardinality(domains[Top.var])
        /\ {result[k] : k \in DOMAIN result} = domains[Top.var]
        /\ \A k, m \in DOMAIN result :
              k < m => EliminationCount(Top.var, assignment, result[k])
                         <= EliminationCount(Top.var, assignment, result[m])

-----------------------------------------------------------------------------
(* Claims about consistent() alone, under SpecConsistent *)

\* C8: consistent(assignment) returns True exactly when the assigned words are
\* pairwise distinct, each has its variable's length and assigned neighbours
\* agree at their overlap; otherwise it returns False.
C8_ConsistentIff ==
    pc # "consistent_call" =>
        /\ pc = "returned"
        /\ result = (IF MeansConsistent(assignment) THEN "True" ELSE "False")

====
